---- MODULE Spec2Model ----
(***************************************************************************)
(* django-orchestra: the system-user functional test harness               *)
(* (orchestra/apps/systemusers/tests/functional_tests/tests.py) run        *)
(* against the provisioning contract of the panel, the billing admin       *)
(* (orchestra/contrib/bills/admin.py), the plugin and account forms        *)
(* (orchestra/forms/options.py) and the mailer (orchestra/utils/mail.py).  *)
(*                                                                         *)
(* The harness is in the repository fragment; the resource API, the admin  *)
(* forms of the system users and the provisioning backend are not: they    *)
(* are modelled from the operation table of the specification (section     *)
(* 4.4) and are marked as such where they are defined.                     *)
(***************************************************************************)
EXTENDS Integers, Sequences, FiniteSets, TLC

VARIABLES
    sys,        \* per driving surface: the panel's records and the master host
    run,        \* per driving surface: the test case's status, the number of
                \* statements it has completed, and its cleanup stack
    test,       \* the test case being run ("idle" between test cases)
    pc,         \* index of the next step of the test case
    phase,      \* "idle" | "body" | "cleanup" | "done"
    loc,        \* the test case's locals: username, password, username2, ...
    created,    \* the usernames the current test case has created so far
    fault,      \* whether a step of the current test case was made to fail
    bills,      \* the Bill table, by primary key
    lines,      \* the BillLine table, by primary key
    sublines,   \* the sub-line table, by primary key
    fieldsets,  \* BillAdmin.fieldsets, the class attribute every request shares
    bill_ids,   \* self.bill_ids of the BillLineManagerAdmin of get_urls
    requests,   \* the requests to bills_bill_manage_lines being handled
    instance,   \* the plugin-backed record: its plugin field and its data
    plugin_form,    \* the PluginDataForm last constructed
    submitted,  \* the cleaned_data of the last save of a PluginDataForm
    accounts,   \* the account table: the stored password of each username
    account_form,   \* the outcome of the last account form submitted
    mail        \* the last call of send_email_template and what it sent

users_vars == <<sys, run, test, pc, phase, loc, created, fault>>
bills_vars == <<bills, lines, sublines, fieldsets>>
manager_vars == <<bill_ids, requests>>
forms_vars == <<instance, plugin_form, submitted, accounts, account_form, mail>>
vars == <<users_vars, bills_vars, manager_vars, forms_vars>>

(***************************************************************************)
(* Bounds.                                                                 *)
(***************************************************************************)
\* size of the pool random_ascii(10) usernames are drawn from
NumNames == 2
\* size of the pool random_ascii(5) passwords are drawn from
NumPasswords == 2
\* rows of the Bill, BillLine and sub-line tables
NumBills == 2
NumLines == 1
NumSublines == 2
\* requests to the line manager that are handled at the same time
NumRequests == 2
\* values a declared field of a plugin form can be given
NumValues == 2
\* length of the text a template renders to
MaxLen == 3

Surfaces == {"REST", "Admin"}

\* self.account.username: the account's main system user
Main == 0
Names == 1..NumNames
Users == {Main} \cup Names
Passwords == 1..NumPasswords

DEV_NULL == "/dev/null"
RSSH == "/bin/rssh"
BASH == "/bin/bash"

(***************************************************************************)
(* The panel's records and the master host.                                *)
(***************************************************************************)
\* the stored form of a password (never the clear text)
make_password(p) == <<"hash", p>>

NoUser == [exists |-> FALSE, password |-> make_password(0), shell |-> "",
           is_active |-> FALSE, groups |-> {}]

\* one name's entries on the host: its /etc/passwd line (with the shell), its
\* /etc/shadow line (hash, locked), its /etc/group line (with the members) and
\* its home directory
NoEntry == [passwd |-> FALSE, shell |-> "", shadow |-> FALSE,
            hash |-> make_password(0), locked |-> FALSE,
            group |-> FALSE, members |-> {}, home |-> FALSE]

EmptyDb == [u \in Users |-> NoUser]
EmptyHost == [u \in Users |-> NoEntry]

\* The backend applies a saved record to the host: the identity and the group
\* of the same name exist, the password and the shell are the record's, the
\* account is locked exactly when the record is inactive, and the user is a
\* member of exactly the record's groups.
BackendSave(host, u, rec) ==
    [n \in Users |->
        LET e == host[n]
            m == IF n \in rec.groups /\ (e.group \/ n = u)
                 THEN e.members \cup {u} ELSE e.members \ {u}
        IN  IF n = u
            THEN [passwd |-> TRUE, shell |-> rec.shell, shadow |-> TRUE,
                  hash |-> rec.password, locked |-> ~rec.is_active,
                  group |-> TRUE, members |-> m, home |-> TRUE]
            ELSE [e EXCEPT !.members = m]]

\* The backend removes the identity, its group and its home directory.
BackendDelete(host, u) ==
    [n \in Users |-> IF n = u THEN NoEntry
                     ELSE [host[n] EXCEPT !.members = @ \ {u}]]

\* create / save / delete / change_password of a system-user resource: the
\* record is written and the backend is run on the routed master server.
ResourceCreate(S, u, p, shell) ==
    IF S.db[u].exists THEN S
    ELSE LET rec == [exists |-> TRUE, password |-> make_password(p),
                     shell |-> shell, is_active |-> TRUE, groups |-> {}]
         IN  [db |-> [S.db EXCEPT ![u] = rec],
              host |-> BackendSave(S.host, u, rec)]

ResourceSave(S, u, rec) ==
    IF ~S.db[u].exists THEN S
    ELSE LET r == [rec EXCEPT !.groups =
                        {g \in rec.groups : S.db[g].exists}]
         IN  [db |-> [S.db EXCEPT ![u] = r],
              host |-> BackendSave(S.host, u, r)]

ResourceDelete(S, u) ==
    IF ~S.db[u].exists THEN S
    ELSE [db |-> [n \in Users |->
                    IF n = u THEN NoUser
                    ELSE [S.db[n] EXCEPT !.groups = @ \ {u}]],
          host |-> BackendDelete(S.host, u)]

ResourceChangePassword(S, u, p) ==
    IF ~S.db[u].exists THEN S
    ELSE ResourceSave(S, u, [S.db[u] EXCEPT !.password = make_password(p)])

\* The groups the change form's "add all" control selects: every other
\* system user.
GroupChoices(S, u) == {g \in Users : S.db[g].exists /\ g # u}

(***************************************************************************)
(* Commands and logins on the master host.                                 *)
(***************************************************************************)
EtcFiles == {"/etc/passwd", "/etc/group", "/etc/shadow"}

\* the names with a line "^name:" in a file of the host
Lines(host, file) ==
    {n \in Users : \/ file = "/etc/passwd" /\ host[n].passwd
                   \/ file = "/etc/group" /\ host[n].group
                   \/ file = "/etc/shadow" /\ host[n].shadow}

\* exit status of  grep "^name:" file : 0 a line matches, 1 none does,
\* 2 the file cannot be read
grep(host, name, file) ==
    IF file \notin EtcFiles THEN 2
    ELSE IF name \in Lines(host, file) THEN 0 ELSE 1

\* id name: the exit status and the three fields of the output,
\* uid=N(name) gid=N(group) groups=N(group),N(group),...
id(host, name) ==
    IF host[name].passwd
    THEN [return_code |-> 0,
          stdout |-> << {name}, {name},
                        {name} \cup {g \in Users : host[g].group
                                         /\ name \in host[g].members} >>]
    ELSE [return_code |-> 1, stdout |-> << >>]

\* the account a login is checked against
Authenticates(host, name, p) ==
    /\ host[name].passwd
    /\ host[name].shadow
    /\ host[name].hash = make_password(p)

\* FTP login: "ok", or "error_perm" (login refused)
FtpLogin(host, name, p) ==
    IF Authenticates(host, name, p) /\ ~host[name].locked
    THEN "ok" ELSE "error_perm"

\* SSH transport authentication: /dev/null is no login shell
SshConnect(host, name, p) ==
    IF /\ Authenticates(host, name, p)
       /\ ~host[name].locked
       /\ host[name].shell \in {RSSH, BASH}
    THEN "ok" ELSE "AuthenticationException"

\* exit status of a command run in an authenticated SSH session: only a full
\* shell runs it
SshExec(host, name) == IF host[name].shell = BASH THEN 0 ELSE 1

\* run and sshrun signal a command failure when the exit status is not 0
CommandError(return_code) == return_code # 0

(***************************************************************************)
(* The two driving surfaces (RESTSystemUserMixin, AdminSystemUserMixin).   *)
(***************************************************************************)
\* def add(self, username, password, shell='/dev/null')
DefaultShell == DEV_NULL

\* retrieve(username=username).get() / SystemUser.objects.get(username=...)
retrieve(S, username) == S.db[username].exists

REST_add(S, username, password, shell) ==
    ResourceCreate(S, username, password, shell)

\* mutant: the resource is retrieved and never deleted
REST_delete_kept(S, username) == S

REST_delete(S, username) == ResourceDelete(S, username)

\* mutant: the group is written to the record and the backend is not run
REST_add_group_unsaved(S, username, groupname) ==
    IF retrieve(S, username) /\ retrieve(S, groupname)
    THEN [S EXCEPT !.db[username].groups = @ \cup {groupname}]
    ELSE S

REST_add_group(S, username, groupname) ==
    IF retrieve(S, username) /\ retrieve(S, groupname)
    THEN ResourceSave(S, username,
                      [S.db[username] EXCEPT !.groups = @ \cup {groupname}])
    ELSE S

REST_disable(S, username) ==
    IF retrieve(S, username)
    THEN ResourceSave(S, username, [S.db[username] EXCEPT !.is_active = FALSE])
    ELSE S

REST_save(S, username) ==
    IF retrieve(S, username) THEN ResourceSave(S, username, S.db[username])
    ELSE S

\* mutant: the new password is written to the record and the backend is not run
REST_change_password_unsaved(S, username, password) ==
    IF retrieve(S, username)
    THEN [S EXCEPT !.db[username].password = make_password(password)]
    ELSE S

REST_change_password(S, username, password) ==
    ResourceChangePassword(S, username, password)

\* the add form: username, the password twice, the account, the shell
Admin_add(S, username, password, shell) ==
    ResourceCreate(S, username, password, shell)

\* the delete screen and its confirmation
Admin_delete(S, username) == ResourceDelete(S, username)

\* mutant: the form is saved without the click on id_groups_add_all_link
Admin_add_group_unclicked(S, username, groupname) ==
    IF retrieve(S, username) THEN ResourceSave(S, username, S.db[username])
    ELSE S

\* the change form: click id_groups_add_all_link, then save
Admin_add_group(S, username, groupname) ==
    IF retrieve(S, username)
    THEN ResourceSave(S, username,
                      [S.db[username] EXCEPT
                          !.groups = @ \cup GroupChoices(S, username)])
    ELSE S

\* mutant: the form is saved without the click on id_is_active
Admin_disable_unclicked(S, username) ==
    IF retrieve(S, username) THEN ResourceSave(S, username, S.db[username])
    ELSE S

\* the change form: click the id_is_active checkbox, then save
Admin_disable(S, username) ==
    IF retrieve(S, username)
    THEN ResourceSave(S, username, [S.db[username] EXCEPT !.is_active = ~@])
    ELSE S

Admin_save(S, username) ==
    IF retrieve(S, username) THEN ResourceSave(S, username, S.db[username])
    ELSE S

Admin_change_password(S, username, password) ==
    ResourceChangePassword(S, username, password)

\* the method a test case of surface s calls
add(s, S, username, password, shell) ==
    IF s = "REST" THEN REST_add(S, username, password, shell)
    ELSE Admin_add(S, username, password, shell)

delete(s, S, username) ==
    IF s = "REST" THEN REST_delete(S, username) ELSE Admin_delete(S, username)

add_group(s, S, username, groupname) ==
    IF s = "REST" THEN REST_add_group(S, username, groupname)
    ELSE Admin_add_group(S, username, groupname)

disable(s, S, username) ==
    IF s = "REST" THEN REST_disable(S, username)
    ELSE Admin_disable(S, username)

save(s, S, username) ==
    IF s = "REST" THEN REST_save(S, username) ELSE Admin_save(S, username)

change_password(s, S, username, password) ==
    IF s = "REST" THEN REST_change_password(S, username, password)
    ELSE Admin_change_password(S, username, password)

(***************************************************************************)
(* SystemUserMixin: the validations.                                       *)
(***************************************************************************)
\* idcmd.stdout.strip().split(' ')[2], then re.findall(r'\d+\((\w+)\)', ...)
idgroups(stdout) == IF Len(stdout) >= 3 THEN stdout[3] ELSE {}

validate_user(S, username) ==
    LET idcmd == id(S.host, username)
    IN  /\ idcmd.return_code = 0
        /\ retrieve(S, username)
        /\ LET groups == S.db[username].groups \cup {username}
           IN  groups = idgroups(idcmd.stdout)

validate_delete(S, username) ==
    /\ ~retrieve(S, username)
    /\ CommandError(id(S.host, username).return_code)
    /\ CommandError(grep(S.host, username, "/etc/groups"))
    /\ CommandError(grep(S.host, username, "/etc/passwd"))
    /\ CommandError(grep(S.host, username, "/etc/shadow"))

\* each of the three logins: "ok", or the exception it ends with
validate_ftp(S, username, password) == FtpLogin(S.host, username, password)

validate_sftp(S, username, password) == SshConnect(S.host, username, password)

\* mutant: the exit status of the command is not asserted
validate_ssh_unasserted(S, username, password) ==
    IF SshConnect(S.host, username, password) # "ok"
    THEN "AuthenticationException" ELSE "ok"

validate_ssh(S, username, password) ==
    IF SshConnect(S.host, username, password) # "ok"
    THEN "AuthenticationException"
    ELSE IF SshExec(S.host, username) # 0 THEN "AssertionError" ELSE "ok"

(***************************************************************************)
(* SystemUserMixin: the test cases, each the sequence of its statements.   *)
(* A statement is [op, user, arg, expect]: the method called, the local    *)
(* holding the username it is called on, its other argument (a shell, or   *)
(* the local holding a password or a group), and how the call must end     *)
(* ("ok", or the exception an assertRaises expects).                       *)
(***************************************************************************)
Stmt(op, user, arg, expect) ==
    [op |-> op, user |-> user, arg |-> arg, expect |-> expect]

test_add ==
    << Stmt("add", "username", "", "ok"),
       Stmt("addCleanup", "username", "", "ok"),
       Stmt("validate_user", "username", "", "ok") >>

test_ftp ==
    << Stmt("add", "username", DEV_NULL, "ok"),
       Stmt("addCleanup", "username", "", "ok"),
       Stmt("validate_sftp", "username", "password", "AuthenticationException"),
       Stmt("validate_ssh", "username", "password", "AuthenticationException") >>

test_sftp ==
    << Stmt("add", "username", RSSH, "ok"),
       Stmt("addCleanup", "username", "", "ok"),
       Stmt("validate_sftp", "username", "password", "ok"),
       Stmt("validate_ssh", "username", "password", "AssertionError") >>

test_ssh ==
    << Stmt("add", "username", BASH, "ok"),
       Stmt("addCleanup", "username", "", "ok"),
       Stmt("validate_ssh", "username", "password", "ok") >>

test_delete ==
    << Stmt("add", "username", "", "ok"),
       Stmt("validate_user", "username", "", "ok"),
       Stmt("delete", "username", "", "ok"),
       Stmt("validate_delete", "username", "", "ok") >>

test_add_group ==
    << Stmt("add", "username", "", "ok"),
       Stmt("addCleanup", "username", "", "ok"),
       Stmt("validate_user", "username", "", "ok"),
       Stmt("add", "username2", "", "ok"),
       Stmt("addCleanup", "username2", "", "ok"),
       Stmt("validate_user", "username2", "", "ok"),
       Stmt("add_group", "username", "username2", "ok"),
       Stmt("assertIn", "username", "username2", "ok"),
       Stmt("validate_user", "username", "", "ok") >>

test_disable ==
    << Stmt("add", "username", DEV_NULL, "ok"),
       Stmt("addCleanup", "username", "", "ok"),
       Stmt("validate_ftp", "username", "password", "ok"),
       Stmt("disable", "username", "", "ok"),
       Stmt("validate_user", "username", "", "ok"),
       Stmt("validate_ftp", "username", "password", "error_perm") >>

test_change_password ==
    << Stmt("add", "username", "", "ok"),
       Stmt("addCleanup", "username", "", "ok"),
       Stmt("validate_ftp", "username", "password", "ok"),
       Stmt("change_password", "username", "new_password", "ok"),
       Stmt("validate_ftp", "username", "new_password", "ok") >>

Tests == {"test_add", "test_ftp", "test_sftp", "test_ssh", "test_delete",
          "test_add_group", "test_disable", "test_change_password"}

Script(t) ==
    CASE t = "test_add" -> test_add
      [] t = "test_ftp" -> test_ftp
      [] t = "test_sftp" -> test_sftp
      [] t = "test_ssh" -> test_ssh
      [] t = "test_delete" -> test_delete
      [] t = "test_add_group" -> test_add_group
      [] t = "test_disable" -> test_disable
      [] t = "test_change_password" -> test_change_password
      [] OTHER -> << >>

\* the value of a local of the test case
Local(l, name) ==
    CASE name = "username" -> l.username
      [] name = "username2" -> l.username2
      [] name = "password" -> l.password
      [] name = "password2" -> l.password2
      [] name = "new_password" -> l.new_password
      [] OTHER -> 0

\* the password a test case creates a user with
PasswordOf(l, user) ==
    IF user = "username2" THEN l.password2 ELSE l.password

\* How statement st ends on surface s in state S: "ok", or the exception.
Outcome(s, S, l, st) ==
    LET u == Local(l, st.user)
    IN  CASE st.op = "add" ->
                IF retrieve(S, u) THEN "ValidationError" ELSE "ok"
          [] st.op = "addCleanup" -> "ok"
          [] st.op = "validate_user" ->
                IF validate_user(S, u) THEN "ok" ELSE "AssertionError"
          [] st.op = "delete" ->
                IF retrieve(S, u) THEN "ok" ELSE "DoesNotExist"
          [] st.op = "validate_delete" ->
                IF validate_delete(S, u) THEN "ok" ELSE "AssertionError"
          [] st.op = "add_group" ->
                IF /\ retrieve(S, u)
                   /\ s = "REST" => retrieve(S, Local(l, st.arg))
                THEN "ok" ELSE "DoesNotExist"
          [] st.op = "assertIn" ->
                IF ~retrieve(S, u) THEN "DoesNotExist"
                ELSE IF Local(l, st.arg) \in S.db[u].groups
                     THEN "ok" ELSE "AssertionError"
          [] st.op = "disable" ->
                IF retrieve(S, u) THEN "ok" ELSE "DoesNotExist"
          [] st.op = "change_password" ->
                IF retrieve(S, u) THEN "ok" ELSE "DoesNotExist"
          [] st.op = "validate_ftp" -> validate_ftp(S, u, Local(l, st.arg))
          [] st.op = "validate_sftp" -> validate_sftp(S, u, Local(l, st.arg))
          [] st.op = "validate_ssh" -> validate_ssh(S, u, Local(l, st.arg))
          [] OTHER -> "ok"

\* The records and the host after statement st on surface s.
Effect(s, S, l, st) ==
    LET u == Local(l, st.user)
    IN  CASE st.op = "add" ->
                add(s, S, u, PasswordOf(l, st.user),
                    IF st.arg = "" THEN DefaultShell ELSE st.arg)
          [] st.op = "delete" -> delete(s, S, u)
          [] st.op = "add_group" -> add_group(s, S, u, Local(l, st.arg))
          [] st.op = "disable" -> disable(s, S, u)
          [] st.op = "change_password" ->
                change_password(s, S, u, Local(l, st.arg))
          [] OTHER -> S

(***************************************************************************)
(* The test runner: setUp, the statements of the test case, the registered *)
(* cleanups (last registered first, run whatever the outcome of the test   *)
(* case), and the flush of the test database before the next test case.    *)
(* Both surfaces run the same test case with the same random draws.        *)
(***************************************************************************)
\* the account's main system user, as the account's creation leaves it
MainUser == [exists |-> TRUE, password |-> make_password(0),
             shell |-> DefaultShell, is_active |-> TRUE, groups |-> {}]

NoLocals == [username |-> 0, password |-> 0, username2 |-> 0,
             password2 |-> 0, new_password |-> 0]

\* the names a random draw can give: those no host knows
Fresh == {n \in Names : \A s \in Surfaces : ~sys[s].host[n].passwd}

UsersInit ==
    /\ sys = [s \in Surfaces |-> [db |-> EmptyDb, host |-> EmptyHost]]
    /\ run = [s \in Surfaces |-> [status |-> "pass", done |-> 0, cleanups |-> << >>]]
    /\ test = "idle"
    /\ pc = 0
    /\ phase = "idle"
    /\ loc = NoLocals
    /\ created = [s \in Surfaces |-> {}]
    /\ fault = FALSE

\* setUp (add_route, login, save of the main user, its cleanup) and the
\* random draws of the test case
setUp(t, l) ==
    /\ phase = "idle"
    /\ test' = t
    /\ loc' = l
    /\ pc' = 1
    /\ phase' = "body"
    /\ sys' = [s \in Surfaces |->
                 save(s, [db |-> [EmptyDb EXCEPT ![Main] = MainUser],
                          host |-> sys[s].host], Main)]
    /\ run' = [s \in Surfaces |-> [status |-> "pass", done |-> 0, cleanups |-> <<Main>>]]
    /\ created' = [s \in Surfaces |-> {}]
    /\ fault' = FALSE
    /\ UNCHANGED <<bills_vars, manager_vars, forms_vars>>

StartTest ==
    \E t \in Tests, u \in Fresh, p \in Passwords :
        \/ /\ t = "test_add_group"
           /\ \E u2 \in Fresh \ {u}, p2 \in Passwords :
                setUp(t, [NoLocals EXCEPT !.username = u, !.password = p,
                                          !.username2 = u2, !.password2 = p2])
        \/ /\ t = "test_change_password"
           /\ \E np \in Passwords :
                setUp(t, [NoLocals EXCEPT !.username = u, !.password = p,
                                          !.new_password = np])
        \/ /\ t \notin {"test_add_group", "test_change_password"}
           /\ setUp(t, [NoLocals EXCEPT !.username = u, !.password = p])

\* the next statement of the test case, on every surface still running it
Statement ==
    /\ phase = "body"
    /\ pc <= Len(Script(test))
    /\ LET st == Script(test)[pc]
           u == Local(loc, st.user)
           passes(s) == Outcome(s, sys[s], loc, st) = st.expect
           live(s) == run[s].status = "pass"
       IN  /\ sys' = [s \in Surfaces |->
                        IF live(s) /\ passes(s)
                        THEN Effect(s, sys[s], loc, st) ELSE sys[s]]
           /\ run' = [s \in Surfaces |->
                        IF ~live(s) THEN run[s]
                        ELSE IF ~passes(s) THEN [run[s] EXCEPT !.status = "fail"]
                        ELSE IF st.op = "addCleanup"
                             THEN [run[s] EXCEPT !.done = @ + 1,
                                                 !.cleanups = Append(@, u)]
                             ELSE [run[s] EXCEPT !.done = @ + 1]]
           /\ created' = [s \in Surfaces |->
                            IF live(s) /\ passes(s) /\ st.op = "add"
                            THEN created[s] \cup {u} ELSE created[s]]
           /\ pc' = pc + 1
           /\ phase' = IF \/ pc + 1 > Len(Script(test))
                          \/ \A s \in Surfaces : ~(live(s) /\ passes(s))
                       THEN "cleanup" ELSE "body"
    /\ UNCHANGED <<test, loc, fault>>
    /\ UNCHANGED <<bills_vars, manager_vars, forms_vars>>

\* the next statement raises (the host is unreachable, the browser times
\* out, an assertion fails): the test case ends there
Fault ==
    /\ phase = "body"
    /\ pc <= Len(Script(test))
    /\ Script(test)[pc].op # "addCleanup"
    /\ run' = [s \in Surfaces |-> [run[s] EXCEPT !.status = "fail"]]
    /\ fault' = TRUE
    /\ phase' = "cleanup"
    /\ UNCHANGED <<sys, test, pc, loc, created>>
    /\ UNCHANGED <<bills_vars, manager_vars, forms_vars>>

\* doCleanups: the last registered cleanup of every surface
Cleanup ==
    /\ phase = "cleanup"
    /\ \E s \in Surfaces : run[s].cleanups # << >>
    /\ sys' = [s \in Surfaces |->
                 IF run[s].cleanups = << >> THEN sys[s]
                 ELSE delete(s, sys[s], run[s].cleanups[Len(run[s].cleanups)])]
    /\ run' = [s \in Surfaces |->
                 IF run[s].cleanups = << >> THEN run[s]
                 ELSE [run[s] EXCEPT
                         !.cleanups = SubSeq(@, 1, Len(@) - 1)]]
    /\ UNCHANGED <<test, pc, phase, loc, created, fault>>
    /\ UNCHANGED <<bills_vars, manager_vars, forms_vars>>

\* the test case and its cleanups have finished
Finish ==
    /\ phase = "cleanup"
    /\ \A s \in Surfaces : run[s].cleanups = << >>
    /\ phase' = "done"
    /\ UNCHANGED <<sys, run, test, pc, loc, created, fault>>
    /\ UNCHANGED <<bills_vars, manager_vars, forms_vars>>

\* the test database is flushed; the master host is as the test case left it
tearDown ==
    /\ phase = "done"
    /\ sys' = [s \in Surfaces |-> [db |-> EmptyDb, host |-> sys[s].host]]
    /\ run' = [s \in Surfaces |-> [status |-> "pass", done |-> 0, cleanups |-> << >>]]
    /\ test' = "idle"
    /\ pc' = 0
    /\ phase' = "idle"
    /\ loc' = NoLocals
    /\ created' = [s \in Surfaces |-> {}]
    /\ fault' = FALSE
    /\ UNCHANGED <<bills_vars, manager_vars, forms_vars>>

UsersNext == StartTest \/ Statement \/ Fault \/ Cleanup \/ Finish \/ tearDown

(***************************************************************************)
(* System-user lifecycle: the properties checked.                          *)
(***************************************************************************)
AllLive == \A s \in Surfaces : run[s].status = "pass"

\* surface s has completed the first n statements of test case t
Completed(s, t, n) == test = t /\ run[s].done >= n

\* the record is not retrievable and the four lookups on the host fail
Gone(S, username) ==
    /\ ~retrieve(S, username)
    /\ CommandError(id(S.host, username).return_code)
    /\ CommandError(grep(S.host, username, "/etc/group"))
    /\ CommandError(grep(S.host, username, "/etc/passwd"))
    /\ CommandError(grep(S.host, username, "/etc/shadow"))

\* surface s runs delete(username) in this step: the delete statement of the
\* test case, or a registered cleanup
DeleteRuns(s, username) ==
    \/ /\ phase = "body"
       /\ pc <= Len(Script(test))
       /\ Script(test)[pc].op = "delete"
       /\ Local(loc, Script(test)[pc].user) = username
       /\ run[s].status = "pass"
       /\ run'[s].done = run[s].done + 1
    \/ /\ phase = "cleanup"
       /\ run[s].cleanups # << >>
       /\ run[s].cleanups[Len(run[s].cleanups)] = username
       /\ run'[s].cleanups # run[s].cleanups

\* C1: on either surface, once delete(username) has run on an identity the
\* test case created with add, the record is not retrievable and the
\* lookups of the username by id, in /etc/group, in /etc/passwd and in
\* /etc/shadow all fail with a command failure; and the harness's own
\* validate_delete passes.
C1_DeleteRemovesIdentity ==
    [][\A s \in Surfaces : \A u \in Users :
          (u \in created[s] /\ DeleteRuns(s, u))
              => (Gone(sys'[s], u) /\ validate_delete(sys'[s], u))]_vars

C1_Witness ==
    /\ test = "test_delete"
    /\ phase = "body"
    /\ \A s \in Surfaces :
          /\ run[s].done = 3
          /\ loc.username \in created[s]
          /\ Gone(sys[s], loc.username)

\* C2: in every state, on either surface, every identity with a record
\* (after add, and after any later add_group or disable) resolves on the
\* host with exit status 0, and the groups the host reports are the
\* record's groups and the identity's own username.
C2_HostGroupsMatchRecord ==
    \A s \in Surfaces : \A u \in Users :
        retrieve(sys[s], u) =>
            /\ id(sys[s].host, u).return_code = 0
            /\ validate_user(sys[s], u)
            /\ idgroups(id(sys[s].host, u).stdout)
                   = sys[s].db[u].groups \cup {u}

C2_Witness ==
    /\ \A s \in Surfaces :
          /\ Completed(s, "test_add_group", 7)
          /\ retrieve(sys[s], loc.username)
          /\ sys[s].db[loc.username].groups # {}
          /\ validate_user(sys[s], loc.username)

\* the clear-text passwords of a record
PasswordsOf(S, u) == {p \in Passwords : S.db[u].password = make_password(p)}

\* C3: the shell-to-service matrix. For every active identity and its
\* password: with shell /dev/null the FTP login succeeds and the SFTP and
\* SSH logins end with AuthenticationException; with /bin/rssh the SFTP
\* login succeeds and the SSH command fails; with /bin/bash the SSH command
\* succeeds with exit status 0. The three test cases of the matrix pass
\* whenever no statement was made to fail.
C3_ShellMatrix ==
    /\ \A s \in Surfaces : \A u \in Names : \A p \in PasswordsOf(sys[s], u) :
          (retrieve(sys[s], u) /\ sys[s].db[u].is_active) =>
             /\ sys[s].db[u].shell = DEV_NULL =>
                   /\ validate_ftp(sys[s], u, p) = "ok"
                   /\ validate_sftp(sys[s], u, p) = "AuthenticationException"
                   /\ validate_ssh(sys[s], u, p) = "AuthenticationException"
             /\ sys[s].db[u].shell = RSSH =>
                   /\ validate_sftp(sys[s], u, p) = "ok"
                   /\ validate_ssh(sys[s], u, p) = "AssertionError"
             /\ sys[s].db[u].shell = BASH =>
                   /\ validate_ssh(sys[s], u, p) = "ok"
                   /\ SshExec(sys[s].host, u) = 0
    /\ (phase = "done" /\ ~fault /\ test \in {"test_ftp", "test_sftp", "test_ssh"})
          => AllLive

C3_Witness ==
    /\ test = "test_sftp"
    /\ phase = "done"
    /\ ~fault
    /\ \A s \in Surfaces : run[s].done = Len(test_sftp)

\* C4: in test_disable, once disable has run on the active identity whose
\* FTP login had succeeded, and for as long as the identity has its record,
\* the id lookup succeeds and the FTP login with the same password is
\* refused with error_perm.
C4_DisableKeepsIdentityRejectsFtp ==
    \A s \in Surfaces :
        (Completed(s, "test_disable", 4) /\ retrieve(sys[s], loc.username)) =>
            /\ id(sys[s].host, loc.username).return_code = 0
            /\ validate_ftp(sys[s], loc.username, loc.password) = "error_perm"

C4_Witness ==
    /\ phase = "body"
    /\ \A s \in Surfaces :
          /\ Completed(s, "test_disable", 4)
          /\ retrieve(sys[s], loc.username)
          /\ ~sys[s].db[loc.username].is_active

\* C5: in test_change_password, once change_password has run with a new
\* password different from the old one, and for as long as the identity has
\* its record, FTP login with the old password is refused, FTP login with
\* the new one succeeds, and the shell, the active flag and the groups are
\* those the identity was created with, in the record and on the host.
C5_ChangePassword ==
    \A s \in Surfaces :
        (/\ Completed(s, "test_change_password", 4)
         /\ retrieve(sys[s], loc.username)
         /\ loc.password # loc.new_password) =>
            /\ validate_ftp(sys[s], loc.username, loc.password) = "error_perm"
            /\ validate_ftp(sys[s], loc.username, loc.new_password) = "ok"
            /\ sys[s].db[loc.username].shell = DefaultShell
            /\ sys[s].db[loc.username].is_active
            /\ sys[s].db[loc.username].groups = {}
            /\ sys[s].host[loc.username].shell = DefaultShell
            /\ ~sys[s].host[loc.username].locked
            /\ idgroups(id(sys[s].host, loc.username).stdout) = {loc.username}

C5_Witness ==
    /\ phase = "body"
    /\ loc.password # loc.new_password
    /\ \A s \in Surfaces :
          /\ Completed(s, "test_change_password", 4)
          /\ retrieve(sys[s], loc.username)

\* C6: in test_add_group, once add_group(username, username2) has run, and
\* for as long as both identities have their records, username2 is in the
\* group list of username's record and in the groups the host reports for
\* username.
C6_AddGroup ==
    \A s \in Surfaces :
        (/\ Completed(s, "test_add_group", 7)
         /\ retrieve(sys[s], loc.username)
         /\ retrieve(sys[s], loc.username2)) =>
            /\ loc.username2 \in sys[s].db[loc.username].groups
            /\ loc.username2 \in idgroups(id(sys[s].host, loc.username).stdout)

C6_Witness ==
    /\ phase = "body"
    /\ \A s \in Surfaces :
          /\ Completed(s, "test_add_group", 7)
          /\ retrieve(sys[s], loc.username)
          /\ retrieve(sys[s], loc.username2)

\* the part of a record the surfaces are compared on
Record(S, u) ==
    [exists |-> S.db[u].exists, shell |-> S.db[u].shell,
     is_active |-> S.db[u].is_active, groups |-> S.db[u].groups]

\* C7: the two surfaces are equivalent: while both have run the same
\* statements of the same test case, every identity has the same record
\* (existence, shell, active flag, groups) on both.
C7_SurfacesEquivalent ==
    AllLive => \A u \in Users : Record(sys["REST"], u) = Record(sys["Admin"], u)

\* C8: no leak: when a test case and its registered cleanups have finished,
\* whatever its outcome, no identity the test case created is left on the
\* host.
C8_NoLeak ==
    phase = "done" =>
        \A s \in Surfaces : \A u \in created[s] : ~sys[s].host[u].passwd

(***************************************************************************)
(* Billing admin (orchestra/contrib/bills/admin.py).                       *)
(*                                                                         *)
(* Amounts are kept in hundredths, so that (1 + tax/100) is exact:         *)
(* a total t of the admin is the integer 100 * t here.                     *)
(***************************************************************************)
BillIds == 1..NumBills
LineIds == 1..NumLines
SublineIds == 1..NumSublines

\* the document kinds an operator creates here (two of the registered ones)
Types == {"INVOICE", "FEE"}

\* a row that is not in its table; obj = None of the admin is NoBill
NoBill == [exists |-> FALSE, number |-> 0, type |-> "", account |-> "",
           amend_of |-> 0, is_open |-> FALSE, due_on |-> 0, comments |-> 0,
           html |-> 0]
NoLine == [exists |-> FALSE, bill |-> 0, description |-> 0, subtotal |-> 0,
           tax |-> 0]
NoSubline == [exists |-> FALSE, line |-> 0, total |-> 0]

\* the columns of Bill a form can write
ModelFields == {"number", "type", "account", "amend_of", "is_open", "due_on",
                "comments", "html"}

Range(seq) == {seq[i] : i \in DOMAIN seq}

RECURSIVE Flatten(_)
\* flatten_fieldsets: the field names of the fieldsets, in order
Flatten(fs) ==
    IF fs = << >> THEN << >> ELSE Head(fs).fields \o Flatten(Tail(fs))

\* ---- BillLineInline, ClosedBillLineInline ----
BillLineInline ==
    [name |-> "BillLineInline",
     fields |-> <<"description", "order_link", "start_on", "end_on", "rate",
                  "quantity", "tax", "subtotal", "display_total">>,
     readonly_fields |-> <<"display_total", "order_link">>,
     has_add_permission |-> TRUE,
     has_delete_permission |-> TRUE]

ClosedBillLineInline ==
    LET fields == <<"display_description", "order_link", "start_on", "end_on",
                    "rate", "quantity", "tax", "display_subtotal",
                    "display_total">>
    IN  [name |-> "ClosedBillLineInline",
         fields |-> fields,
         readonly_fields |-> fields,
         has_add_permission |-> FALSE,
         has_delete_permission |-> FALSE]

\* ---- BillAdmin: the class attributes ----
add_fields == <<"account", "type", "amend_of", "is_open", "due_on", "comments">>

\* fieldsets, as the class statement leaves it
fieldsets_initial ==
    << [name |-> "None",
        fields |-> <<"number", "type", "amend_of_link", "account_link",
                     "display_total", "display_payment_state", "is_sent",
                     "comments">>],
       [name |-> "Dates",
        fields |-> <<"created_on_display", "closed_on_display",
                     "updated_on_display", "due_on">>],
       [name |-> "Raw",
        fields |-> <<"html">>] >>

change_readonly_fields ==
    <<"account_link", "type", "is_open", "amend_of_link", "amend_links">>

readonly_fields ==
    <<"number", "display_total", "is_sent", "display_payment_state",
      "created_on_display", "closed_on_display", "updated_on_display">>

inlines == <<BillLineInline, ClosedBillLineInline>>

\* ---- ExtendedModelAdmin (orchestra.admin), the base class ----
\* readonly_fields, and change_readonly_fields too on a change view
base_get_readonly_fields(obj) ==
    IF obj.exists THEN readonly_fields \o change_readonly_fields
    ELSE readonly_fields

\* add_fields on the add view, the class's fieldsets on a change view
base_get_fieldsets(fs, obj) ==
    IF obj.exists THEN fs ELSE << [name |-> "None", fields |-> add_fields] >>

\* ---- BillAdmin: the methods ----
\* get_readonly_fields without its branch for a bill that is not open
get_readonly_fields_unfrozen(obj) == base_get_readonly_fields(obj)

get_readonly_fields(obj) ==
    LET fields == base_get_readonly_fields(obj)
    IN  IF obj.exists /\ ~obj.is_open THEN fields \o add_fields ELSE fields

\* get_fieldsets without its else branch: amend_links is never assigned
get_fieldsets_shared_once(fs, obj) ==
    IF obj.exists /\ obj.amend_of # 0
    THEN [fs EXCEPT ![1].fields[3] = "amend_of_link"]
    ELSE fs

\* the class attribute after the call: fieldsets[0][1]['fields'][2] is
\* assigned in place
get_fieldsets_shared(fs, obj) ==
    IF obj.exists
    THEN [fs EXCEPT ![1].fields[3] =
             IF obj.amend_of # 0 THEN "amend_of_link" ELSE "amend_links"]
    ELSE fs

\* the value the call returns
get_fieldsets(fs, obj) ==
    LET fieldsets1 == base_get_fieldsets(get_fieldsets_shared(fs, obj), obj)
    IN  IF obj.exists /\ obj.is_open THEN << fieldsets1[1] >> ELSE fieldsets1

\* get_inline_instances without its choice between the two inlines
get_inline_instances_all(obj) == inlines

get_inline_instances(obj) ==
    IF obj.exists /\ ~obj.is_open
    THEN SelectSeq(inlines, LAMBDA inline : inline.name # "BillLineInline")
    ELSE SelectSeq(inlines, LAMBDA inline : inline.name # "ClosedBillLineInline")

\* formfield_for_dbfield without its filter on is_open
amend_of_queryset_unfiltered == {b \in BillIds : bills[b].exists}

\* formfield_for_dbfield: the bills the amend_of field offers
amend_of_queryset == {b \in BillIds : bills[b].exists /\ ~bills[b].is_open}

\* the columns of the form of the add or change view: the fields of the
\* fieldsets that are not read-only
FormFields(fs, obj) ==
    LET shown == Range(Flatten(get_fieldsets(fs, obj)))
        readonly == Range(get_readonly_fields(obj))
    IN  (shown \ readonly) \cap ModelFields

\* the bill a valid form saves: the posted value of every field of the form
SaveForm(obj, form, post) ==
    [exists |-> TRUE,
     number |-> IF "number" \in form THEN post.number ELSE obj.number,
     type |-> IF "type" \in form THEN post.type ELSE obj.type,
     account |-> IF "account" \in form THEN post.account ELSE obj.account,
     amend_of |-> IF "amend_of" \in form THEN post.amend_of ELSE obj.amend_of,
     is_open |-> IF "is_open" \in form THEN post.is_open ELSE obj.is_open,
     due_on |-> IF "due_on" \in form THEN post.due_on ELSE obj.due_on,
     comments |-> IF "comments" \in form THEN post.comments ELSE obj.comments,
     html |-> IF "html" \in form THEN post.html ELSE obj.html]

\* Bill.save: a bill that is not open has its number
BillSave(b, obj) ==
    IF ~obj.is_open /\ obj.number = 0 THEN [obj EXCEPT !.number = b] ELSE obj

\* the columns of BillLine a formset of the inline can write
InlineFormFields(inline) ==
    {f \in Range(inline.fields) : f \notin Range(inline.readonly_fields)}

FreeLines == {l \in LineIds : ~lines[l].exists}
FreeSublines == {k \in SublineIds : ~sublines[k].exists}
Lowest(S) == CHOOSE x \in S : \A y \in S : x <= y

LinesOf(b) == {l \in LineIds : lines[l].exists /\ lines[l].bill = b}
SublinesOf(l) == {k \in SublineIds : sublines[k].exists /\ sublines[k].line = l}

\* The BillLine table after the formsets of the inline instances have been
\* saved for bill b. op is what the operator posted in the formset: nothing,
\* a new row, the DELETE box of a row, or a new value in a column of a row.
SaveFormsets(instances, b, op) ==
    LET allowed(inline) ==
            CASE op.kind = "add" ->
                    inline.has_add_permission /\ FreeLines # {}
              [] op.kind = "delete" ->
                    inline.has_delete_permission /\ op.line \in LinesOf(b)
              [] op.kind = "edit" ->
                    op.field \in InlineFormFields(inline) /\ op.line \in LinesOf(b)
              [] OTHER -> FALSE
    IN  IF \E i \in DOMAIN instances : allowed(instances[i])
        THEN CASE op.kind = "add" ->
                    [lines EXCEPT ![Lowest(FreeLines)] =
                        [exists |-> TRUE, bill |-> b,
                         description |-> op.description,
                         subtotal |-> op.subtotal, tax |-> op.tax]]
               [] op.kind = "delete" -> [lines EXCEPT ![op.line] = NoLine]
               [] op.kind = "edit" /\ op.field = "description" ->
                    [lines EXCEPT ![op.line].description = op.description]
               [] op.kind = "edit" /\ op.field = "subtotal" ->
                    [lines EXCEPT ![op.line].subtotal = op.subtotal]
               [] op.kind = "edit" /\ op.field = "tax" ->
                    [lines EXCEPT ![op.line].tax = op.tax]
               [] OTHER -> lines
        ELSE lines

\* the sub-lines of deleted lines go with them
Cascade(newlines) ==
    [k \in SublineIds |->
        IF sublines[k].exists /\ ~newlines[sublines[k].line].exists
        THEN NoSubline ELSE sublines[k]]

(***************************************************************************)
(* Requests to the billing admin.                                          *)
(***************************************************************************)
\* the accounts of the panel; the operator bills the first
Accounts == {"account1", "account2"}

NoOp == [kind |-> "none", line |-> 0, field |-> "", description |-> 0,
         subtotal |-> 0, tax |-> 0]

\* what an operator posts in the formset of the lines: nothing, one new line
\* (subtotal 100, tax 21), the DELETE box of a stored line, or a new
\* description for one (the row id is the request's: any stored line)
FormsetOps ==
    LET stored == {l \in LineIds : lines[l].exists}
    IN  {NoOp}
        \cup {[NoOp EXCEPT !.kind = "add", !.description = 1, !.subtotal = 100,
                           !.tax = 21]}
        \cup {[NoOp EXCEPT !.kind = "delete", !.line = l] : l \in stored}
        \cup {[NoOp EXCEPT !.kind = "edit", !.line = l, !.field = "description",
                           !.description = 2] : l \in stored}

\* the form of the add view as an operator posts it
AddPosts ==
    {[number |-> 0, type |-> t, account |-> "account1", amend_of |-> x,
      is_open |-> o, due_on |-> 0, comments |-> 0, html |-> 0,
      formset |-> NoOp] :
        t \in Types, x \in 0..NumBills, o \in BOOLEAN}

\* the change screen of obj as it is shown
Shown(obj) ==
    [number |-> obj.number, type |-> obj.type, account |-> obj.account,
     amend_of |-> obj.amend_of, is_open |-> obj.is_open,
     due_on |-> obj.due_on, comments |-> obj.comments, html |-> obj.html,
     formset |-> NoOp]

\* the change screen of obj as an operator posts it: the values it shows,
\* with at most one of them changed. A request may carry any column,
\* whether the screen offers a widget for it or not.
FieldPosts(obj) ==
    LET shown == Shown(obj)
    IN  {shown}
        \cup {[shown EXCEPT !.number = n] : n \in BillIds}
        \cup {[shown EXCEPT !.type = t] : t \in Types}
        \cup {[shown EXCEPT !.account = a] : a \in Accounts}
        \cup {[shown EXCEPT !.amend_of = x] : x \in 0..NumBills}
        \cup {[shown EXCEPT !.is_open = o] : o \in BOOLEAN}
        \cup {[shown EXCEPT !.due_on = d] : d \in 0..1}
        \cup {[shown EXCEPT !.comments = c] : c \in 0..1}
        \cup {[shown EXCEPT !.html = 2]}

\* the same screen posted with one row of the formset changed
LinePosts(obj) ==
    {[Shown(obj) EXCEPT !.formset = op] : op \in FormsetOps \ {NoOp}}

ChangePosts(obj) == FieldPosts(obj) \cup LinePosts(obj)

\* the form is valid: a posted amend_of is one the field offers
IsValid(form, post) ==
    "amend_of" \in form => post.amend_of \in {0} \cup amend_of_queryset

BillsInit ==
    /\ bills = [b \in BillIds |-> NoBill]
    /\ lines = [l \in LineIds |-> NoLine]
    /\ sublines = [k \in SublineIds |-> NoSubline]
    /\ fieldsets = fieldsets_initial

\* POST to admin:bills_bill_add
add_view(post) ==
    /\ \E b \in BillIds : ~bills[b].exists
    /\ LET b == Lowest({x \in BillIds : ~bills[x].exists})
           form == FormFields(fieldsets, NoBill)
           newlines == SaveFormsets(get_inline_instances(NoBill), b,
                                    post.formset)
       IN  /\ IsValid(form, post)
           /\ bills' = [bills EXCEPT
                          ![b] = BillSave(b, SaveForm(NoBill, form, post))]
           /\ lines' = newlines
           /\ sublines' = Cascade(newlines)
           /\ fieldsets' = get_fieldsets_shared(fieldsets, NoBill)
    /\ UNCHANGED <<users_vars, manager_vars, forms_vars>>

\* POST to admin:bills_bill_change of bill b
change_view(b, post) ==
    /\ bills[b].exists
    /\ LET obj == bills[b]
           form == FormFields(fieldsets, obj)
           newlines == SaveFormsets(get_inline_instances(obj), b, post.formset)
       IN  /\ IsValid(form, post)
           /\ bills' = [bills EXCEPT
                          ![b] = BillSave(b, SaveForm(obj, form, post))]
           /\ lines' = newlines
           /\ sublines' = Cascade(newlines)
           /\ fieldsets' = get_fieldsets_shared(fieldsets, obj)
    /\ UNCHANGED <<users_vars, manager_vars, forms_vars>>

\* actions.close_bills: the bill is frozen, numbered and rendered
close_bills(b) ==
    /\ bills[b].exists
    /\ bills[b].is_open
    /\ bills' = [bills EXCEPT ![b] = BillSave(b, [@ EXCEPT !.is_open = FALSE,
                                                          !.html = 1])]
    /\ UNCHANGED <<lines, sublines, fieldsets>>
    /\ UNCHANGED <<users_vars, manager_vars, forms_vars>>

\* a billing adjustment: a sub-line of total 10 under a line of an open bill
add_subline(l) ==
    /\ lines[l].exists
    /\ bills[lines[l].bill].is_open
    /\ FreeSublines # {}
    /\ sublines' = [sublines EXCEPT ![Lowest(FreeSublines)] =
                       [exists |-> TRUE, line |-> l, total |-> 10]]
    /\ UNCHANGED <<bills, lines, fieldsets>>
    /\ UNCHANGED <<users_vars, manager_vars, forms_vars>>

\* the form BillLineAdmin shows for a line: the class names no read-only
\* field and no permission, so every column of the line is a field of it.
\* Posted with a new description, or with another stored bill.
BillLinePosts(l) ==
    {[bill |-> lines[l].bill, description |-> 3]}
    \cup {[bill |-> b, description |-> lines[l].description] :
              b \in {x \in BillIds : bills[x].exists}}

\* POST to admin:bills_billline_change of line l
billline_change_view(l, post) ==
    /\ lines[l].exists
    /\ lines' = [lines EXCEPT ![l].bill = post.bill,
                              ![l].description = post.description]
    /\ UNCHANGED <<bills, sublines, fieldsets>>
    /\ UNCHANGED <<users_vars, manager_vars, forms_vars>>

\* the add view posted for an invoice that amends nothing
AddInvoice ==
    \E post \in {q \in AddPosts : q.type = "INVOICE" /\ q.amend_of = 0} :
        add_view(post)
ChangeFields ==
    \E b \in BillIds : \E post \in FieldPosts(bills[b]) : change_view(b, post)
ChangeLines ==
    \E b \in BillIds : \E post \in LinePosts(bills[b]) : change_view(b, post)
CloseBills == \E b \in BillIds : close_bills(b)

\* BillAdmin over invoices: the add view, the change view, the close action
BillsNext == AddInvoice \/ ChangeFields \/ ChangeLines \/ CloseBills

\* the same with billing adjustments
TotalsNext ==
    \/ AddInvoice
    \/ ChangeFields
    \/ ChangeLines
    \/ CloseBills
    \/ \E l \in LineIds : add_subline(l)

\* BillAdmin and the BillLineAdmin registered for BillLine
LinesNext ==
    \/ AddInvoice
    \/ ChangeFields
    \/ ChangeLines
    \/ CloseBills
    \/ \E l \in LineIds : \E post \in BillLinePosts(l) : billline_change_view(l, post)

\* BillAdmin over bills and their amendments, without lines
AmendNext ==
    \/ \E post \in AddPosts : add_view(post)
    \/ ChangeFields
    \/ CloseBills

(***************************************************************************)
(* The totals of a bill, in hundredths.                                    *)
(***************************************************************************)
RECURSIVE SumOf(_, _)
\* the sum of f over the set S
SumOf(f, S) ==
    IF S = {} THEN 0
    ELSE LET x == CHOOSE y \in S : TRUE IN f[x] + SumOf(f, S \ {x})

\* the rows of bill b LEFT JOIN lines LEFT JOIN sublines: a line with
\* sub-lines gives one row per sub-line, one without gives one row (NULL: 0)
JoinRows(b) ==
    {r \in LineIds \X (SublineIds \cup {0}) :
        /\ r[1] \in LinesOf(b)
        /\ \/ r[2] \in SublinesOf(r[1])
           \/ r[2] = 0 /\ SublinesOf(r[1]) = {}}

\* get_queryset: approx_total = Coalesce(Sum((F('lines__subtotal')
\*   + Coalesce('lines__sublines__total', 0)) * (1+F('lines__tax')/100)), 0)
approx_total(b) ==
    LET term == [r \in LineIds \X (SublineIds \cup {0}) |->
                    (lines[r[1]].subtotal
                       + (IF r[2] = 0 THEN 0 ELSE sublines[r[2]].total))
                    * (100 + lines[r[1]].tax)]
    IN  SumOf(term, JoinRows(b))

\* Bill.compute_total: the sum over the lines of
\* (subtotal + sum of the sub-line totals) * (1 + tax/100)
compute_total(b) ==
    LET subs(l) == SumOf([k \in SublineIds |-> sublines[k].total],
                         SublinesOf(l))
        term == [l \in LineIds |->
                    (lines[l].subtotal + subs(l)) * (100 + lines[l].tax)]
    IN  SumOf(term, LinesOf(b))

\* display_total: "%s &%s;" % (bill.compute_total(), currency)
display_total(b) == <<compute_total(b), "&", "eur", ";">>

(***************************************************************************)
(* The bulk line manager: BillLineManagerAdmin.changelist_view, served by  *)
(* the one instance get_urls builds. A string is a tuple of characters.    *)
(***************************************************************************)
Requests == 1..NumRequests

Digits == <<"0", "1", "2", "3", "4", "5", "6", "7", "8", "9">>

\* request.GET: without ids, or with one value of ids, which is empty, one
\* id, or two ids and a comma (a primary key below ten is one digit)
Queries ==
    {[has_ids |-> FALSE, ids |-> << >>], [has_ids |-> TRUE, ids |-> << >>]}
    \cup {[has_ids |-> TRUE, ids |-> <<Digits[b + 1]>>] : b \in BillIds}
    \cup {[has_ids |-> TRUE, ids |-> <<Digits[p[1] + 1], ",", Digits[p[2] + 1]>>] :
             p \in {q \in BillIds \X BillIds : q[1] # q[2]}}

RECURSIVE split(_, _)
\* str.split(sep)
split(str, sep) ==
    IF \A i \in DOMAIN str : str[i] # sep
    THEN <<str>>
    ELSE LET i == CHOOSE k \in DOMAIN str :
                     str[k] = sep /\ \A j \in 1..(k - 1) : str[j] # sep
         IN  <<SubSeq(str, 1, i - 1)>> \o split(SubSeq(str, i + 1, Len(str)), sep)

\* int(str) raises ValueError: no digits, or a character that is none
ValueError(str) == str = << >> \/ \E i \in DOMAIN str : str[i] \notin Range(Digits)

RECURSIVE int(_)
\* int(str) of a string of digits
int(str) ==
    IF str = << >> THEN 0
    ELSE 10 * int(SubSeq(str, 1, Len(str) - 1))
           + (CHOOSE n \in 0..9 : Digits[n + 1] = str[Len(str)]) 

NoRequest == [pc |-> "idle", GET |-> [has_ids |-> FALSE, ids |-> << >>],
              bill_ids |-> << >>, status |-> "", messages |-> {},
              listed |-> {}]

ManagerInit ==
    /\ bill_ids = << >>
    /\ requests = [r \in Requests |-> NoRequest]

\* BillLineManagerAdmin.get_queryset: the lines the changelist lists
get_queryset ==
    IF bill_ids # << >>
    THEN {l \in LineIds : lines[l].exists /\ lines[l].bill \in Range(bill_ids)}
    ELSE {l \in LineIds : lines[l].exists}

\* changelist_view, lines 160-169: the ids are popped, parsed, and stored
\* on the admin instance; without ids, the notice and the redirect
changelist_view_enter(r, GET) ==
    /\ requests[r].pc = "idle"
    /\ IF ~GET.has_ids
       THEN /\ requests' = [requests EXCEPT ![r] =
                               [NoRequest EXCEPT
                                   !.pc = "done", !.GET = GET,
                                   !.status = "redirect",
                                   !.messages = {"No bills selected."}]]
            /\ UNCHANGED bill_ids
       ELSE LET pieces == split(GET.ids, ",")
            IN  IF \E i \in DOMAIN pieces : ValueError(pieces[i])
                THEN /\ requests' = [requests EXCEPT ![r] =
                                        [NoRequest EXCEPT
                                            !.pc = "done", !.GET = GET,
                                            !.status = "ValueError"]]
                     /\ UNCHANGED bill_ids
                ELSE LET ids == [i \in DOMAIN pieces |-> int(pieces[i])]
                     IN  /\ requests' = [requests EXCEPT ![r] =
                                            [NoRequest EXCEPT
                                                !.pc = "scoped", !.GET = GET,
                                                !.bill_ids = ids]]
                         /\ bill_ids' = ids
    /\ UNCHANGED <<users_vars, bills_vars, forms_vars>>

\* changelist_view, lines 170-185: the title, the warnings, and the
\* changelist of ModelAdmin, which lists get_queryset
changelist_view_list(r) ==
    /\ requests[r].pc = "scoped"
    /\ LET ids == requests[r].bill_ids
           closed == {b \in Range(ids) : bills[b].exists /\ ~bills[b].is_open}
       IN  IF Len(ids) = 1 /\ ~bills[ids[1]].exists
           THEN requests' = [requests EXCEPT ![r].pc = "done",
                                             ![r].status = "DoesNotExist"]
           ELSE requests' = [requests EXCEPT
                    ![r].pc = "done",
                    ![r].status = "rendered",
                    ![r].messages =
                        IF closed = {} THEN {}
                        ELSE IF Len(ids) = 1 THEN {"Bill not in open state."}
                        ELSE {"Not all bills are in open state."},
                    ![r].listed = get_queryset]
    /\ UNCHANGED bill_ids
    /\ UNCHANGED <<users_vars, bills_vars, forms_vars>>

\* the response is sent
respond(r) ==
    /\ requests[r].pc = "done"
    /\ requests' = [requests EXCEPT ![r] = NoRequest]
    /\ UNCHANGED bill_ids
    /\ UNCHANGED <<users_vars, bills_vars, forms_vars>>

\* invoices, their lines, and the line manager
ManagerNext ==
    \/ AddInvoice
    \/ ChangeLines
    \/ \E r \in Requests : \E GET \in Queries : changelist_view_enter(r, GET)
    \/ \E r \in Requests : changelist_view_list(r)
    \/ \E r \in Requests : respond(r)

(***************************************************************************)
(* The plugin data form: orchestra/forms/options.py, PluginDataForm. The   *)
(* concrete forms, their declared fields and their plugins are not in the  *)
(* repository fragment: two forms stand for them.                          *)
(***************************************************************************)
\* form.declared_fields of each concrete form
declared_fields(f) == IF f = "FormA" THEN {"field1", "field2"} ELSE {"field2", "field3"}

\* form.plugin.get_plugin_name()
get_plugin_name(f) == IF f = "FormA" THEN "pluginA" ELSE "pluginB"

\* the initial of a declared field, as the field is declared
FieldInitial == 0

NoData == [k \in {} |-> 0]

\* PluginDataForm.__init__: without an instance the declared fields keep
\* their initial; with the record, data.get(field, initial)
PluginDataForm_init(f, has_instance) ==
    /\ has_instance = instance.exists
    /\ plugin_form' = [state |-> "unbound", class |-> f, has_instance |-> has_instance,
                initial |-> [field \in declared_fields(f) |->
                               IF has_instance /\ field \in DOMAIN instance.data
                               THEN instance.data[field]
                               ELSE FieldInitial]]
    /\ UNCHANGED <<instance, submitted>>
    /\ UNCHANGED <<users_vars, bills_vars, manager_vars, accounts, account_form, mail>>

\* what save would leave were the cleaned values written into the old data
saved_data_merged(f, cleaned_data) ==
    [field \in DOMAIN instance.data \cup declared_fields(f) |->
        IF field \in declared_fields(f) THEN cleaned_data[field]
        ELSE instance.data[field]]

\* PluginDataForm.save: the data of the record after the save
saved_data(f, cleaned_data) == [field \in declared_fields(f) |-> cleaned_data[field]]

\* PluginDataForm.save of the form constructed, valid with cleaned_data
PluginDataForm_save(cleaned_data) ==
    /\ plugin_form.state = "unbound"
    /\ instance' = [exists |-> TRUE,
                    plugin |-> get_plugin_name(plugin_form.class),
                    data |-> saved_data(plugin_form.class, cleaned_data)]
    /\ plugin_form' = [plugin_form EXCEPT !.state = "saved"]
    /\ submitted' = cleaned_data
    /\ UNCHANGED <<users_vars, bills_vars, manager_vars, accounts, account_form, mail>>

\* a form of either plugin is constructed, and saved with any values
PluginNext ==
    \/ \E f \in {"FormA", "FormB"} : \E has_instance \in BOOLEAN :
          PluginDataForm_init(f, has_instance)
    \/ \E cleaned_data \in [declared_fields(plugin_form.class) -> 0..NumValues] :
          PluginDataForm_save(cleaned_data)

(***************************************************************************)
(* The account forms: orchestra/forms/options.py, UserCreationForm and     *)
(* UserChangeForm. The cleaning of a form (each field, then its clean_     *)
(* method; a ValidationError becomes an error of the field, any other      *)
(* exception leaves the view) and the save of a model form are Django's.   *)
(***************************************************************************)
\* UserCreationForm.error_messages: the codes it has a message for
error_messages == [code \in {"password_mismatch"} |->
                     "The two password fields didn't match."]

NoAccountForm == [class |-> "", username |-> 0, existed |-> FALSE,
                  posted |-> << >>, initial |-> << >>, cleaned |-> << >>,
                  status |-> "", errors |-> {}]

\* what clean_password would return were it the value of the field
clean_password_posted(initial, posted) == posted

\* UserChangeForm.clean_password
clean_password(initial, posted) == initial

\* UserCreationForm.clean_username: "DoesNotExist" returns the username
clean_username(username) ==
    IF ~accounts[username].exists THEN "ok"
    ELSE IF "duplicate_username" \in DOMAIN error_messages THEN "ValidationError"
    ELSE "KeyError"

\* UserCreationForm.clean_password2
clean_password2(password1, password2) ==
    IF password1 # password2 THEN "ValidationError" ELSE "ok"

\* the creation form is posted: clean_username, clean_password2, and save
\* with set_password when the form has no error
UserCreationForm_submit(username, password1, password2) ==
    LET name == clean_username(username)
        pass == clean_password2(password1, password2)
        errors == (IF name = "ValidationError"
                   THEN {<<"username", "duplicate_username">>} ELSE {})
                  \cup (IF pass = "ValidationError"
                        THEN {<<"password2", "password_mismatch">>} ELSE {})
        outcome == [NoAccountForm EXCEPT
                       !.class = "UserCreationForm", !.username = username,
                       !.existed = accounts[username].exists,
                       !.posted = <<password1, password2>>]
    IN  /\ IF name = "KeyError"
           THEN /\ account_form' = [outcome EXCEPT !.status = "KeyError"]
                /\ UNCHANGED accounts
           ELSE IF errors # {}
           THEN /\ account_form' = [outcome EXCEPT !.status = "invalid",
                                                   !.errors = errors]
                /\ UNCHANGED accounts
           ELSE /\ account_form' = [outcome EXCEPT !.status = "saved"]
                /\ accounts' = [accounts EXCEPT ![username] =
                                   [exists |-> TRUE,
                                    password |-> make_password(password1)]]
        /\ UNCHANGED <<users_vars, bills_vars, manager_vars>>
        /\ UNCHANGED <<instance, plugin_form, submitted, mail>>

\* the change form of an account is posted: clean_password, and the save
\* of the cleaned password
UserChangeForm_submit(username, posted) ==
    /\ accounts[username].exists
    /\ LET initial == accounts[username].password
           cleaned == clean_password(initial, posted)
       IN  /\ account_form' = [NoAccountForm EXCEPT
                                  !.class = "UserChangeForm",
                                  !.username = username, !.existed = TRUE,
                                  !.posted = posted, !.initial = initial,
                                  !.cleaned = cleaned, !.status = "saved"]
           /\ accounts' = [accounts EXCEPT ![username].password = cleaned]
    /\ UNCHANGED <<users_vars, bills_vars, manager_vars>>
    /\ UNCHANGED <<instance, plugin_form, submitted, mail>>

\* the creation form with any username and passwords; the change form
\* with nothing, a hash or a raw password in its password field
AccountsNext ==
    \/ \E username \in Names : \E password1 \in Passwords : \E password2 \in Passwords :
          UserCreationForm_submit(username, password1, password2)
    \/ \E username \in Names :
          \E posted \in {<< >>} \cup {make_password(p) : p \in Passwords}
                               \cup {<<"raw", p>> : p \in Passwords} :
              UserChangeForm_submit(username, posted)

(***************************************************************************)
(* The mailer: orchestra/utils/mail.py, send_email_template. A template is *)
(* given by the text its subject branch renders to; the rendering, the     *)
(* settings and the dispatch of the message are not in the fragment.       *)
(***************************************************************************)
Whitespace == {" ", "\n"}

\* the texts a template can render to
Texts == UNION {[1..n -> Whitespace \cup {"a"}] : n \in 0..MaxLen}

RECURSIVE lstrip(_)
\* str.lstrip()
lstrip(str) ==
    IF str # << >> /\ Head(str) \in Whitespace THEN lstrip(Tail(str)) ELSE str

RECURSIVE rstrip(_)
\* str.rstrip()
rstrip(str) ==
    IF str # << >> /\ str[Len(str)] \in Whitespace
    THEN rstrip(SubSeq(str, 1, Len(str) - 1))
    ELSE str

\* what strip would give were only the leading whitespace removed
strip_leading(str) == lstrip(str)

\* str.strip()
strip(str) == rstrip(lstrip(str))

\* the site of the settings: ORCHESTRA_SITE_NAME and the parsed ORCHESTRA_SITE_URL
settings_site == [name |-> "ORCHESTRA_SITE_NAME", scheme |-> "url.scheme",
                  domain |-> "url.netloc"]

\* no record, no account, no form constructed or posted, no mail sent
FormsInit ==
    /\ instance = [exists |-> FALSE, plugin |-> "", data |-> NoData]
    /\ plugin_form = [state |-> "none", class |-> "", has_instance |-> FALSE,
                      initial |-> NoData]
    /\ submitted = NoData
    /\ accounts = [u \in Names |-> [exists |-> FALSE, password |-> << >>]]
    /\ account_form = NoAccountForm
    /\ mail = [sent |-> FALSE, rendered |-> << >>, context |-> NoData,
               to |-> [str |-> FALSE, value |-> << >>], html |-> "None",
               site |-> "", subject |-> << >>, recipients |-> << >>,
               alternatives |-> << >>]

\* send_email_template(template, context, to, html=html), where the subject
\* branch of template renders to the text rendered
send_email_template(rendered, context, to, html) ==
    /\ mail' = [sent |-> TRUE, rendered |-> rendered, context |-> context,
                to |-> to, html |-> html,
                site |-> IF "site" \notin DOMAIN context
                         THEN settings_site ELSE context["site"],
                subject |-> strip(rendered),
                recipients |-> IF to.str THEN <<to.value>> ELSE to.value,
                alternatives |-> IF html # "None"
                                 THEN <<"text/html">> ELSE << >>]
    /\ UNCHANGED <<users_vars, bills_vars, manager_vars>>
    /\ UNCHANGED <<instance, plugin_form, submitted, accounts, account_form>>

\* a call with any rendered text, a context without a site or with a site
\* of the caller, one address as a string or a list of addresses, and html
\* None or the name of a template
MailNext ==
    \E rendered \in Texts :
      \E context \in {[k \in {"user"} |-> "user1"],
                      [k \in {"user", "site"} |->
                          IF k = "site" THEN "site of the caller" ELSE "user1"]} :
        \E to \in {[str |-> TRUE, value |-> "a@example.org"],
                   [str |-> FALSE, value |-> <<"a@example.org">>],
                   [str |-> FALSE, value |-> <<"a@example.org", "b@example.org">>]} :
            \E html \in {"None", "template.html"} :
                send_email_template(rendered, context, to, html)

(***************************************************************************)
(* Properties of the billing admin.                                        *)
(***************************************************************************)
\* C9: for every bill, whatever its lines and their sub-lines, the total the
\* queryset annotates (approx_total, the sort key of the listing) is the
\* total that is displayed: the sum over the lines of
\* (subtotal + the line's sub-line totals) * (1 + tax/100).
C9_AnnotatedTotalIsFormula ==
    \A b \in BillIds : bills[b].exists => approx_total(b) = compute_total(b)

\* the columns of a bill a closed bill keeps, and its rows of BillLine
Frozen(b) ==
    [number |-> bills[b].number, type |-> bills[b].type,
     account |-> bills[b].account, amend_of |-> bills[b].amend_of,
     is_open |-> bills[b].is_open, due_on |-> bills[b].due_on,
     comments |-> bills[b].comments]

BillLines(b) ==
    [l \in LineIds |->
        IF lines[l].exists /\ lines[l].bill = b THEN lines[l] ELSE NoLine]

\* the change screen of bill b is submitted in this step
Submitted(b) == \E post \in ChangePosts(bills[b]) : change_view(b, post)

C11_ClosedLinesImmutable ==
    [][\A l \in LineIds :
          (lines[l].exists /\ ~bills[lines[l].bill].is_open)
              => lines'[l] = lines[l]]_vars

C19_FieldsetsOfBill ==
    \A b \in BillIds :
        LET returned == get_fieldsets(fieldsets, bills[b])
            names == {returned[i].name : i \in DOMAIN returned}
            fields == Range(Flatten(returned))
        IN  bills[b].exists
                => /\ "amend_of_link" \in fields <=> bills[b].amend_of # 0
                   /\ "amend_links" \in fields <=> bills[b].amend_of = 0
                   /\ "Dates" \in names <=> ~bills[b].is_open
                   /\ "Raw" \in names <=> ~bills[b].is_open

\* the last change view was of a closed bill without amend_of, and the
\* next is of an open bill that amends it
C19_Witness ==
    \E b \in BillIds : \E c \in BillIds \ {b} :
        /\ bills[b].exists /\ bills[b].is_open /\ bills[b].amend_of = c
        /\ bills[c].exists /\ ~bills[c].is_open /\ bills[c].amend_of = 0
        /\ fieldsets[1].fields[3] = "amend_links"

\* the change screen of bill b offers the inline of open bills alone, which
\* lets lines be added and deleted and their columns be edited
LinesEditable(b) ==
    LET instances == get_inline_instances(bills[b])
    IN  /\ Len(instances) = 1
        /\ instances[1].has_add_permission
        /\ instances[1].has_delete_permission
        /\ InlineFormFields(instances[1]) =
              {"description", "start_on", "end_on", "rate", "quantity", "tax",
               "subtotal"}

\* C20: while a bill is open, of its columns the form of its change screen
\* has comments and no other (number, type, account, amend_of and due_on
\* are not in the form; the add screen has type, account, amend_of, is_open,
\* due_on and comments), and its lines can be added, removed and edited
\* inline.
C20_OpenBillEditable ==
    /\ FormFields(fieldsets, NoBill) =
          {"account", "type", "amend_of", "is_open", "due_on", "comments"}
    /\ \A b \in BillIds :
          (bills[b].exists /\ bills[b].is_open)
              => /\ FormFields(fieldsets, bills[b]) = {"comments"}
                 /\ LinesEditable(b)

\* an open bill whose comments were edited on its change screen, with a
\* line whose description was edited inline
C20_Witness ==
    \E b \in BillIds : \E l \in LineIds :
        /\ bills[b].exists /\ bills[b].is_open /\ bills[b].comments = 1
        /\ lines[l].exists /\ lines[l].bill = b /\ lines[l].description = 2

\* C20 as stated: while a bill is open, number, type, account, due_on,
\* comments and amend_of are in the form of its change screen, and its
\* lines can be added, removed and edited inline.
C20_AllEditable ==
    \A b \in BillIds :
        (bills[b].exists /\ bills[b].is_open)
            => /\ {"number", "type", "account", "due_on", "comments", "amend_of"}
                    \subseteq FormFields(fieldsets, bills[b])
               /\ LinesEditable(b)

\* C13: a request to the line manager whose ids parameter is missing or
\* empty gets the notice "No bills selected." and the redirect, lists
\* nothing, and leaves the stored bill_ids as they were.
C13_NoBillsSelected ==
    [][\A r \in Requests :
          (/\ requests[r].pc = "idle"
           /\ requests'[r].pc # "idle"
           /\ (~requests'[r].GET.has_ids \/ requests'[r].GET.ids = << >>))
              => (/\ requests'[r].status = "redirect"
                  /\ "No bills selected." \in requests'[r].messages
                  /\ requests'[r].listed = {}
                  /\ bill_ids' = bill_ids)]_vars

\* C18: whatever the interleaving of the requests to the line manager, the
\* changelist a request renders lists the lines of exactly the bills of
\* that request's own ids parameter.
C18_OwnScope ==
    [][\A r \in Requests :
          (requests[r].pc = "scoped" /\ requests'[r].status = "rendered")
              => requests'[r].listed =
                    {l \in LineIds : /\ lines[l].exists
                                     /\ lines[l].bill \in Range(requests[r].bill_ids)}]_vars

\* C14: an edit form constructed for a record last saved through the form
\* of the same plugin has, for every declared field, the value submitted at
\* that save as initial; after every save the keys of the data of the
\* record are exactly the declared fields of the saving form, and the
\* plugin field holds the name of its plugin.
C14_PluginRoundTrip ==
    /\ (/\ plugin_form.state = "unbound"
        /\ plugin_form.has_instance
        /\ instance.plugin = get_plugin_name(plugin_form.class))
           => \A field \in declared_fields(plugin_form.class) :
                 plugin_form.initial[field] = submitted[field]
    /\ plugin_form.state = "saved"
           => /\ DOMAIN instance.data = declared_fields(plugin_form.class)
              /\ instance.plugin = get_plugin_name(plugin_form.class)
              /\ \A field \in declared_fields(plugin_form.class) :
                    instance.data[field] = submitted[field]

\* the record was saved through the form of one plugin and then through the
\* form of the other, with values that are not the initial of the fields,
\* and an edit form is constructed for it
C14_Witness ==
    /\ plugin_form.state = "unbound"
    /\ plugin_form.has_instance
    /\ plugin_form.class = "FormB"
    /\ instance.plugin = "pluginB"
    /\ \A field \in declared_fields("FormB") : plugin_form.initial[field] # FieldInitial
    /\ plugin_form.initial["field2"] # plugin_form.initial["field3"]

\* C15: whatever is posted in the password field of the change form of an
\* account, the cleaned password is the stored value the form was built
\* with, and the stored password of the account after the save is that
\* value.
C15_ChangeKeepsHash ==
    account_form.class = "UserChangeForm"
        => /\ account_form.cleaned = account_form.initial
           /\ accounts[account_form.username].password = account_form.initial

\* a change form posted with a password that is not the stored one
C15_Witness ==
    /\ account_form.class = "UserChangeForm"
    /\ account_form.status = "saved"
    /\ account_form.posted # account_form.initial
    /\ account_form.posted # << >>
    /\ account_form.initial # << >>

\* C16: a creation form posted with a username that exists ends invalid,
\* with a duplicate error on the username and not in a fault, and a
\* creation form posted with two different passwords ends invalid with the
\* password-mismatch error.
C16_CreationRejected ==
    account_form.class = "UserCreationForm"
        => /\ account_form.existed
                 => /\ account_form.status = "invalid"
                    /\ <<"username", "duplicate_username">> \in account_form.errors
           /\ account_form.posted[1] # account_form.posted[2]
                 => /\ account_form.status = "invalid"
                    /\ <<"password2", "password_mismatch">> \in account_form.errors

\* C17: the subject of the message sent is the rendered subject without
\* its leading and trailing whitespace; the message has an HTML alternative
\* exactly when an html template was given; a recipient given as one
\* string is sent as the list of that one address; a site of the context
\* of the caller is the site the templates are rendered with, and the site
\* of the settings is only when the context has none.
C17_MailerContract ==
    mail.sent
        => /\ \E i \in 0..Len(mail.rendered) : \E j \in i..Len(mail.rendered) :
                 /\ mail.subject = SubSeq(mail.rendered, i + 1, j)
                 /\ \A k \in 1..i : mail.rendered[k] \in Whitespace
                 /\ \A k \in (j + 1)..Len(mail.rendered) :
                       mail.rendered[k] \in Whitespace
                 /\ i < j => /\ mail.rendered[i + 1] \notin Whitespace
                             /\ mail.rendered[j] \notin Whitespace
           /\ (mail.alternatives # << >>) <=> (mail.html # "None")
           /\ mail.to.str => mail.recipients = <<mail.to.value>>
           /\ IF "site" \in DOMAIN mail.context
              THEN mail.site = mail.context["site"]
              ELSE mail.site = settings_site

\* a call with a subject rendered with whitespace on both sides, an html
\* template, one address as a string and a context with a site
C17_Witness ==
    /\ mail.sent
    /\ mail.rendered = <<" ", "a", "\n">>
    /\ mail.subject = <<"a">>
    /\ mail.html # "None"
    /\ mail.to.str
    /\ "site" \in DOMAIN mail.context

(***************************************************************************)
(* Specifications: the system-user harness, and the billing admin.         *)
(***************************************************************************)
Init ==
    /\ UsersInit /\ BillsInit /\ ManagerInit
    /\ FormsInit

Spec == Init /\ [][UsersNext]_vars

SpecBills == Init /\ [][BillsNext]_vars

SpecTotals == Init /\ [][TotalsNext]_vars

SpecAmend == Init /\ [][AmendNext]_vars

SpecLines == Init /\ [][LinesNext]_vars

SpecManager == Init /\ [][ManagerNext]_vars

SpecPlugin == Init /\ [][PluginNext]_vars

SpecAccounts == Init /\ [][AccountsNext]_vars

SpecMail == Init /\ [][MailNext]_vars

====
